---- MODULE Spec2Model ----
\* Model of src/ArtworkTable.tsx: the selection state of the artwork table
\* (mode, bulk target, include and exclude sets), the paging state and the
\* page fetches in flight.  A record is modelled by its id: the component
\* never reads another attribute when it decides a selection.
EXTENDS Integers, Sequences, FiniteSets, TLC

\* ---------------------------------------------------------------- bounds
MaxInFlight == 2      \* fetches in flight at the same time
MaxOps == 3           \* selection events (row toggle, select-all toggle, submission)

\* ------------------------------------------------------ program constants
ROWS_PER_PAGE == 12

VARIABLES
  artworks,            \* rows displayed, in order: a sequence of record ids
  loading,
  totalRecords,
  currentPage,
  selectionMode,       \* "manual" | "custom"
  customSelectTarget,
  selectedRowIds,      \* Include Set
  deselectedRowIds,    \* Exclude Set
  inFlight,            \* page -> number of unresolved fetches of that page
  nOps,                \* selection events so far (bounded by MaxOps)
  last                 \* the last event and the state it acted on

vars == <<artworks, loading, totalRecords, currentPage, selectionMode,
          customSelectTarget, selectedRowIds, deselectedRowIds,
          inFlight, nOps, last>>

selVars == <<selectionMode, customSelectTarget, selectedRowIds, deselectedRowIds>>

\* ------------------------------------------------------------ user input
\* Pages the user navigates to (the catalog of 50 has 5).
Pages == {1, 2}

\* Rows, by index on the page, whose checkbox the user flips.
ClickRows == {0, 1}

\* Text the bulk-count input can hold when Submit is pressed.
CountInputs ==
  { <<"a", "b">>, <<"0">>, <<"-", "3">>, <<"1", "5">>, <<"2", "0">>,
    <<"2", "1">> }

\* ------------------------------------------------------------ the catalog
\* Totals the remote catalog reports (pagination.total of a response).
ServerTotals == {20, 50}

\* id of the record at a global position (1-indexed); ids are not positions.
IdOf(pos) == 100 + 3 * pos

Min(a, b) == IF a <= b THEN a ELSE b
Max(a, b) == IF a >= b THEN a ELSE b

\* data.data of the response to ?page=page&limit=ROWS_PER_PAGE when the
\* catalog holds total records.
PageData(page, total) ==
  LET first == (page - 1) * ROWS_PER_PAGE + 1
      lastPos == Min(page * ROWS_PER_PAGE, total)
  IN  IF lastPos < first THEN << >>
      ELSE [i \in 1..(lastPos - first + 1) |-> IdOf(first + i - 1)]

\* number of pages the Paginator offers for totalRecords records
PageCount(total) == (total + ROWS_PER_PAGE - 1) \div ROWS_PER_PAGE

Range(s) == {s[i] : i \in DOMAIN s}

\* ------------------------------------------------------------- parseInt
Digits == {"0", "1", "2", "3", "4", "5", "6", "7", "8", "9"}

DigitVal(c) ==
  CASE c = "0" -> 0 [] c = "1" -> 1 [] c = "2" -> 2 [] c = "3" -> 3
    [] c = "4" -> 4 [] c = "5" -> 5 [] c = "6" -> 6 [] c = "7" -> 7
    [] c = "8" -> 8 [] c = "9" -> 9

RECURSIVE SkipSpaces(_)
SkipSpaces(s) ==
  IF s # << >> /\ Head(s) = " " THEN SkipSpaces(Tail(s)) ELSE s

\* length of the longest prefix of s made of decimal digits
RECURSIVE DigitPrefixLen(_)
DigitPrefixLen(s) ==
  IF s # << >> /\ Head(s) \in Digits THEN 1 + DigitPrefixLen(Tail(s)) ELSE 0

\* value of a sequence of decimal digits
RECURSIVE DigitsValue(_)
DigitsValue(s) ==
  IF s = << >> THEN 0
  ELSE 10 * DigitsValue(SubSeq(s, 1, Len(s) - 1)) + DigitVal(s[Len(s)])

\* JavaScript parseInt(text) in radix 10: leading blanks are skipped, one
\* sign is read, then digits up to the first character that is not a digit;
\* NaN when there is no digit.  The result is [nan, val].  (No input starts
\* with 0x, so the hexadecimal prefix is not modelled.)
parseInt(text) ==
  LET t == SkipSpaces(text)
      signed == t # << >> /\ Head(t) \in {"+", "-"}
      u == IF signed THEN Tail(t) ELSE t
      n == DigitPrefixLen(u)
      v == DigitsValue(SubSeq(u, 1, n))
  IN  IF n = 0 THEN [nan |-> TRUE, val |-> 0]
      ELSE [nan |-> FALSE, val |-> IF signed /\ Head(t) = "-" THEN 0 - v ELSE v]

\* ------------------------------------------------------ derived selections
\* the global position computed from the row index alone
isSelectedIn_NoPageOffset(desel, sel, mode, target, page, artwork, indexOnPage) ==
  IF artwork \in desel THEN FALSE
  ELSE IF artwork \in sel THEN TRUE
  ELSE IF mode = "custom" /\ target > 0
       THEN indexOnPage + 1 <= target
       ELSE FALSE

\* the comparison with the target made strict
isSelectedIn_Strict(desel, sel, mode, target, page, artwork, indexOnPage) ==
  IF artwork \in desel THEN FALSE
  ELSE IF artwork \in sel THEN TRUE
  ELSE IF mode = "custom" /\ target > 0
       THEN (page - 1) * ROWS_PER_PAGE + indexOnPage + 1 < target
       ELSE FALSE

\* isArtworkSelected evaluated on an explicit selection state and page.
isSelectedIn(desel, sel, mode, target, page, artwork, indexOnPage) ==
  IF artwork \in desel THEN FALSE
  ELSE IF artwork \in sel THEN TRUE
  ELSE IF mode = "custom" /\ target > 0
       THEN (page - 1) * ROWS_PER_PAGE + indexOnPage + 1 <= target
       ELSE FALSE

isArtworkSelected(artwork, indexOnPage) ==
  isSelectedIn(deselectedRowIds, selectedRowIds, selectionMode,
               customSelectTarget, currentPage, artwork, indexOnPage)

\* ids of the rows of the displayed page that are shown checked
getSelectedArtworks ==
  {artworks[i] : i \in {j \in DOMAIN artworks : isArtworkSelected(artworks[j], j - 1)}}

\* the same filter on an explicit selection state st = [mode, target, sel, desel]
selectedRowsIn(st, page, rows) ==
  {rows[i] : i \in {j \in DOMAIN rows :
      isSelectedIn(st.desel, st.sel, st.mode, st.target, page, rows[j], j - 1)}}

\* the bulk count without the cap at totalRecords
getTotalSelectedCount_NoMin ==
  IF selectionMode = "custom" /\ customSelectTarget > 0
  THEN Max(0, customSelectTarget - Cardinality(deselectedRowIds))
  ELSE Cardinality(selectedRowIds)

\* the count with the exclusions subtracted in manual mode as well
getTotalSelectedCount_MinusExcluded ==
  IF selectionMode = "custom" /\ customSelectTarget > 0
  THEN Max(0, Min(customSelectTarget, totalRecords) - Cardinality(deselectedRowIds))
  ELSE Max(0, Cardinality(selectedRowIds) - Cardinality(deselectedRowIds))

getTotalSelectedCount ==
  IF selectionMode = "custom" /\ customSelectTarget > 0
  THEN Max(0, Min(customSelectTarget, totalRecords) - Cardinality(deselectedRowIds))
  ELSE Cardinality(selectedRowIds)

isAllSelected ==
  Len(artworks) > 0 /\ \A i \in DOMAIN artworks : isArtworkSelected(artworks[i], i - 1)

\* --------------------------------------------------------------- history
\* last is the latest event: its name and arguments and the selection state
\* it acted on (pre).  No event changes the page, the rows or the total
\* together with the selection, so after a selection event the variables
\* still hold the page, rows and total it acted on.  A row toggle that follows
\* a row toggle also keeps that earlier toggle (prev).
Pre ==
  [mode |-> selectionMode, target |-> customSelectTarget,
   sel |-> selectedRowIds, desel |-> deselectedRowIds]

NoPre == [mode |-> "manual", target |-> 0, sel |-> {}, desel |-> {}]

NoEvent ==
  [op |-> "none", value |-> {}, checked |-> FALSE, input |-> << >>, ok |-> TRUE,
   page |-> 1, pre |-> NoPre]

Event(op, value, checked, input, ok) ==
  [op |-> op, value |-> value, checked |-> checked, input |-> input, ok |-> ok,
   page |-> currentPage, pre |-> Pre,
   prev |-> IF op = "toggle" /\ last.op = "toggle"
            THEN [f \in DOMAIN NoEvent |-> last[f]] ELSE NoEvent]

\* a paging event: a page change, or a fetch that resolved (ok) or failed
PagingEvent(op, page, ok) ==
  [op |-> op, value |-> {}, checked |-> FALSE, input |-> << >>, ok |-> ok,
   page |-> page, pre |-> NoPre, prev |-> NoEvent]

RECURSIVE SumInFlight(_, _)
SumInFlight(f, S) ==
  IF S = {} THEN 0
  ELSE LET p == CHOOSE q \in S : TRUE IN f[p] + SumInFlight(f, S \ {p})

InFlightCount == SumInFlight(inFlight, Pages)

\* ------------------------------------------------------------------ Init
\* The state after the first render and its effect: fetchArtworks(1) has
\* been called, so the flag is set and the fetch of page 1 is in flight.
Init ==
  /\ artworks = << >>
  /\ loading = TRUE
  /\ totalRecords = 0
  /\ currentPage = 1
  /\ selectionMode = "manual"
  /\ customSelectTarget = 0
  /\ selectedRowIds = {}
  /\ deselectedRowIds = {}
  /\ inFlight = [p \in Pages |-> IF p = 1 THEN 1 ELSE 0]
  /\ nOps = 0
  /\ last = PagingEvent("mount", 1, TRUE)

\* ---------------------------------------------------------------- paging
\* fetchArtworks(page) up to its first await: the flag is set and the
\* request leaves.
fetchArtworksStart(page) ==
  /\ loading' = TRUE
  /\ inFlight' = [inFlight EXCEPT ![page] = @ + 1]

\* onPageChange that also resets the selection state
onPageChange_ResetSelection(page) ==
  /\ page \in Pages
  /\ page <= PageCount(totalRecords)
  /\ currentPage' = page
  /\ IF page # currentPage
     THEN InFlightCount < MaxInFlight /\ fetchArtworksStart(page)
     ELSE UNCHANGED <<loading, inFlight>>
  /\ last' = PagingEvent("page", page, page # currentPage)
  /\ selectionMode' = "manual"
  /\ customSelectTarget' = 0
  /\ selectedRowIds' = {}
  /\ deselectedRowIds' = {}
  /\ UNCHANGED <<artworks, totalRecords, nOps>>

\* onPageChange, and the effect on currentPage that the render it causes
\* runs: a fetch starts only when the page number changed.
onPageChange(page) ==
  /\ page \in Pages
  /\ page <= PageCount(totalRecords)
  /\ currentPage' = page
  /\ IF page # currentPage
     THEN InFlightCount < MaxInFlight /\ fetchArtworksStart(page)
     ELSE UNCHANGED <<loading, inFlight>>
  /\ last' = PagingEvent("page", page, page # currentPage)
  /\ UNCHANGED <<artworks, totalRecords, selVars, nOps>>

\* fetchArtworks(page) discarding the response of a page that is no longer the
\* current one
fetchResolve_DropStale(page, total) ==
  /\ inFlight[page] > 0
  /\ inFlight' = [inFlight EXCEPT ![page] = @ - 1]
  /\ IF page = currentPage
     THEN artworks' = PageData(page, total) /\ totalRecords' = total
     ELSE UNCHANGED <<artworks, totalRecords>>
  /\ loading' = FALSE
  /\ last' = PagingEvent("fetch", page, TRUE)
  /\ UNCHANGED <<currentPage, selVars, nOps>>

\* fetchArtworks(page) after its awaits, the response parsed: try and finally.
fetchResolve(page, total) ==
  /\ inFlight[page] > 0
  /\ inFlight' = [inFlight EXCEPT ![page] = @ - 1]
  /\ artworks' = PageData(page, total)
  /\ totalRecords' = total
  /\ loading' = FALSE
  /\ last' = PagingEvent("fetch", page, TRUE)
  /\ UNCHANGED <<currentPage, selVars, nOps>>

\* fetchArtworks(page) whose failure path does not reach setLoading(false)
fetchReject_KeepLoading(page) ==
  /\ inFlight[page] > 0
  /\ inFlight' = [inFlight EXCEPT ![page] = @ - 1]
  /\ last' = PagingEvent("fetch", page, FALSE)
  /\ UNCHANGED <<artworks, loading, totalRecords, currentPage, selVars, nOps>>

\* fetchArtworks(page) when fetch or response.json() rejects: catch and finally.
fetchReject(page) ==
  /\ inFlight[page] > 0
  /\ inFlight' = [inFlight EXCEPT ![page] = @ - 1]
  /\ loading' = FALSE
  /\ last' = PagingEvent("fetch", page, FALSE)
  /\ UNCHANGED <<artworks, totalRecords, currentPage, selVars, nOps>>

\* ------------------------------------------------------------- selection
\* the forEach with a newly deselected row removed from the Include copy but
\* not added to the Exclude copy
RECURSIVE applySelectionChange_NoExclude(_, _, _)
applySelectionChange_NoExclude(newSelection, i, acc) ==
  IF i > Len(artworks) THEN acc
  ELSE LET artwork == artworks[i]
           isNowSelected == artwork \in newSelection
           wasSelected == isArtworkSelected(artwork, i - 1)
           next == IF isNowSelected /\ ~wasSelected
                   THEN [sel |-> acc.sel \cup {artwork}, desel |-> acc.desel \ {artwork}]
                   ELSE IF ~isNowSelected /\ wasSelected
                   THEN [sel |-> acc.sel \ {artwork}, desel |-> acc.desel]
                   ELSE acc
       IN  applySelectionChange_NoExclude(newSelection, i + 1, next)

\* the forEach with a newly selected row added to the Include copy but not
\* removed from the Exclude copy
RECURSIVE applySelectionChange_NoUnexclude(_, _, _)
applySelectionChange_NoUnexclude(newSelection, i, acc) ==
  IF i > Len(artworks) THEN acc
  ELSE LET artwork == artworks[i]
           isNowSelected == artwork \in newSelection
           wasSelected == isArtworkSelected(artwork, i - 1)
           next == IF isNowSelected /\ ~wasSelected
                   THEN [sel |-> acc.sel \cup {artwork}, desel |-> acc.desel]
                   ELSE IF ~isNowSelected /\ wasSelected
                   THEN [sel |-> acc.sel \ {artwork}, desel |-> acc.desel \cup {artwork}]
                   ELSE acc
       IN  applySelectionChange_NoUnexclude(newSelection, i + 1, next)

\* the forEach with every row that is not in the new selection moved to the
\* Exclude copy, whether it was selected or not
RECURSIVE applySelectionChange_ExcludeUnchecked(_, _, _)
applySelectionChange_ExcludeUnchecked(newSelection, i, acc) ==
  IF i > Len(artworks) THEN acc
  ELSE LET artwork == artworks[i]
           isNowSelected == artwork \in newSelection
           wasSelected == isArtworkSelected(artwork, i - 1)
           next == IF isNowSelected /\ ~wasSelected
                   THEN [sel |-> acc.sel \cup {artwork}, desel |-> acc.desel \ {artwork}]
                   ELSE IF ~isNowSelected
                   THEN [sel |-> acc.sel \ {artwork}, desel |-> acc.desel \cup {artwork}]
                   ELSE acc
       IN  applySelectionChange_ExcludeUnchecked(newSelection, i + 1, next)

\* The forEach of onSelectionChange over rows i..Len(artworks): acc is
\* [sel, desel], the two copies being edited; wasSelected reads the state of
\* the render, not the copies.
\* the forEach without its second branch: a newly deselected row is left as
\* it was
RECURSIVE applySelectionChange_IgnoreDeselect(_, _, _)
applySelectionChange_IgnoreDeselect(newSelection, i, acc) ==
  IF i > Len(artworks) THEN acc
  ELSE LET artwork == artworks[i]
           isNowSelected == artwork \in newSelection
           wasSelected == isArtworkSelected(artwork, i - 1)
           next == IF isNowSelected /\ ~wasSelected
                   THEN [sel |-> acc.sel \cup {artwork}, desel |-> acc.desel \ {artwork}]
                   ELSE acc
       IN  applySelectionChange_IgnoreDeselect(newSelection, i + 1, next)

RECURSIVE applySelectionChange(_, _, _)
applySelectionChange(newSelection, i, acc) ==
  IF i > Len(artworks) THEN acc
  ELSE LET artwork == artworks[i]
           isNowSelected == artwork \in newSelection
           wasSelected == isArtworkSelected(artwork, i - 1)
           next == IF isNowSelected /\ ~wasSelected
                   THEN [sel |-> acc.sel \cup {artwork}, desel |-> acc.desel \ {artwork}]
                   ELSE IF ~isNowSelected /\ wasSelected
                   THEN [sel |-> acc.sel \ {artwork}, desel |-> acc.desel \cup {artwork}]
                   ELSE acc
       IN  applySelectionChange(newSelection, i + 1, next)

\* onSelectionChange without setCustomSelectTarget(0)
onSelectionChange_KeepTarget(newSelection) ==
  /\ nOps < MaxOps
  /\ LET r == applySelectionChange(newSelection, 1,
                 [sel |-> selectedRowIds, desel |-> deselectedRowIds])
     IN  /\ selectedRowIds' = r.sel
         /\ deselectedRowIds' = r.desel
  /\ selectionMode' = "manual"
  /\ nOps' = nOps + 1
  /\ last' = Event("toggle", newSelection, FALSE, << >>, TRUE)
  /\ UNCHANGED <<artworks, loading, totalRecords, currentPage, inFlight,
                 customSelectTarget>>

\* onSelectionChange without setSelectionMode('manual')
onSelectionChange_KeepMode(newSelection) ==
  /\ nOps < MaxOps
  /\ LET r == applySelectionChange(newSelection, 1,
                 [sel |-> selectedRowIds, desel |-> deselectedRowIds])
     IN  /\ selectedRowIds' = r.sel
         /\ deselectedRowIds' = r.desel
  /\ customSelectTarget' = 0
  /\ nOps' = nOps + 1
  /\ last' = Event("toggle", newSelection, FALSE, << >>, TRUE)
  /\ UNCHANGED <<artworks, loading, totalRecords, currentPage, inFlight,
                 selectionMode>>

onSelectionChange(newSelection) ==
  /\ nOps < MaxOps
  /\ LET r == applySelectionChange(newSelection, 1,
                 [sel |-> selectedRowIds, desel |-> deselectedRowIds])
     IN  /\ selectedRowIds' = r.sel
         /\ deselectedRowIds' = r.desel
  /\ selectionMode' = "manual"
  /\ customSelectTarget' = 0
  /\ nOps' = nOps + 1
  /\ last' = Event("toggle", newSelection, FALSE, << >>, TRUE)
  /\ UNCHANGED <<artworks, loading, totalRecords, currentPage, inFlight>>

\* onSelectAllChange whose unchecked branch only deletes from the Include copy
onSelectAllChange_NoExclude(checked) ==
  /\ nOps < MaxOps
  /\ IF checked
     THEN /\ selectedRowIds' = selectedRowIds \cup Range(artworks)
          /\ deselectedRowIds' = deselectedRowIds \ Range(artworks)
     ELSE /\ deselectedRowIds' = deselectedRowIds
          /\ selectedRowIds' = selectedRowIds \ Range(artworks)
  /\ selectionMode' = "manual"
  /\ customSelectTarget' = 0
  /\ nOps' = nOps + 1
  /\ last' = Event("selectAll", {}, checked, << >>, TRUE)
  /\ UNCHANGED <<artworks, loading, totalRecords, currentPage, inFlight>>

\* onSelectAllChange without the delete from the other set
onSelectAllChange_NoRemove(checked) ==
  /\ nOps < MaxOps
  /\ IF checked
     THEN /\ selectedRowIds' = selectedRowIds \cup Range(artworks)
          /\ deselectedRowIds' = deselectedRowIds
     ELSE /\ deselectedRowIds' = deselectedRowIds \cup Range(artworks)
          /\ selectedRowIds' = selectedRowIds
  /\ selectionMode' = "manual"
  /\ customSelectTarget' = 0
  /\ nOps' = nOps + 1
  /\ last' = Event("selectAll", {}, checked, << >>, TRUE)
  /\ UNCHANGED <<artworks, loading, totalRecords, currentPage, inFlight>>

\* onSelectAllChange without setCustomSelectTarget(0)
onSelectAllChange_KeepTarget(checked) ==
  /\ nOps < MaxOps
  /\ IF checked
     THEN /\ selectedRowIds' = selectedRowIds \cup Range(artworks)
          /\ deselectedRowIds' = deselectedRowIds \ Range(artworks)
     ELSE /\ deselectedRowIds' = deselectedRowIds \cup Range(artworks)
          /\ selectedRowIds' = selectedRowIds \ Range(artworks)
  /\ selectionMode' = "manual"
  /\ nOps' = nOps + 1
  /\ last' = Event("selectAll", {}, checked, << >>, TRUE)
  /\ UNCHANGED <<artworks, loading, totalRecords, currentPage, inFlight,
                 customSelectTarget>>

onSelectAllChange(checked) ==
  /\ nOps < MaxOps
  /\ IF checked
     THEN /\ selectedRowIds' = selectedRowIds \cup Range(artworks)
          /\ deselectedRowIds' = deselectedRowIds \ Range(artworks)
     ELSE /\ deselectedRowIds' = deselectedRowIds \cup Range(artworks)
          /\ selectedRowIds' = selectedRowIds \ Range(artworks)
  /\ selectionMode' = "manual"
  /\ customSelectTarget' = 0
  /\ nOps' = nOps + 1
  /\ last' = Event("selectAll", {}, checked, << >>, TRUE)
  /\ UNCHANGED <<artworks, loading, totalRecords, currentPage, inFlight>>

\* the early returns without the comparison with totalRecords
countRejected_NoTotalCheck(count) ==
  \/ count.nan \/ count.val = 0
  \/ (~count.nan /\ count.val <= 0)
  \/ count.nan

\* the two early returns of handleCustomSelection
countRejected(count) ==
  \/ count.nan \/ count.val = 0        \* !count
  \/ (~count.nan /\ count.val <= 0)
  \/ count.nan                         \* isNaN(count)
  \/ (~count.nan /\ count.val > totalRecords)

\* handleCustomSelection without setDeselectedRowIds(new Set())
handleCustomSelection_KeepExcluded(customSelectCount) ==
  LET count == parseInt(customSelectCount)
  IN  IF countRejected(count)
      THEN /\ nOps < MaxOps
           /\ nOps' = nOps + 1
           /\ last' = Event("submit", {}, FALSE, customSelectCount, FALSE)
           /\ UNCHANGED <<artworks, loading, totalRecords, currentPage, selVars,
                          inFlight>>
      ELSE /\ nOps < MaxOps
           /\ selectionMode' = "custom"
           /\ customSelectTarget' = count.val
           /\ selectedRowIds' = {}
           /\ nOps' = nOps + 1
           /\ last' = Event("submit", {}, FALSE, customSelectCount, TRUE)
           /\ UNCHANGED <<artworks, loading, totalRecords, currentPage, inFlight,
                          deselectedRowIds>>

\* handleCustomSelection; customSelectCount is the text the bulk-count input
\* holds when Submit is pressed (only this handler reads it).
handleCustomSelection(customSelectCount) ==
  LET count == parseInt(customSelectCount)
  IN  IF countRejected(count)
      THEN /\ nOps < MaxOps
           /\ nOps' = nOps + 1
           /\ last' = Event("submit", {}, FALSE, customSelectCount, FALSE)
           /\ UNCHANGED <<artworks, loading, totalRecords, currentPage, selVars,
                          inFlight>>
      ELSE /\ nOps < MaxOps
           /\ selectionMode' = "custom"
           /\ customSelectTarget' = count.val
           /\ selectedRowIds' = {}
           /\ deselectedRowIds' = {}
           /\ nOps' = nOps + 1
           /\ last' = Event("submit", {}, FALSE, customSelectCount, TRUE)
           /\ UNCHANGED <<artworks, loading, totalRecords, currentPage, inFlight>>

\* e.value of a selection-change event: the checked rows of the page with the
\* checkbox of one row flipped.
ClickableRows == {i \in DOMAIN artworks : i - 1 \in ClickRows}

SelectionEvents ==
  {(getSelectedArtworks \ {artworks[i]}) \cup ({artworks[i]} \ getSelectedArtworks)
     : i \in ClickableRows}

Next ==
  \/ \E page \in Pages : onPageChange(page)
  \/ \E page \in Pages, total \in ServerTotals : fetchResolve(page, total)
  \/ \E page \in Pages : fetchReject(page)
  \/ \E newSelection \in SelectionEvents : onSelectionChange(newSelection)
  \/ \E checked \in BOOLEAN : onSelectAllChange(checked)
  \/ \E text \in CountInputs : handleCustomSelection(text)

Spec == Init /\ [][Next]_vars

\* the awaits of one call of fetchArtworks(page) end: the request resolves or
\* rejects
fetchCompletes(page) ==
  \/ \E total \in ServerTotals : fetchResolve(page, total)
  \/ fetchReject(page)

\* The same program under the assumption that every issued fetch eventually
\* resolves or rejects.
SpecFair ==
  /\ Init
  /\ [][Next]_vars
  /\ \A page \in Pages : WF_vars(fetchCompletes(page))

TypeOK ==
  /\ selectionMode \in {"manual", "custom"}
  /\ customSelectTarget \in Nat
  /\ loading \in BOOLEAN
  /\ totalRecords \in {0} \cup ServerTotals
  /\ currentPage \in Pages
  /\ inFlight \in [Pages -> 0..MaxInFlight]
  /\ nOps \in 0..MaxOps
  /\ last.op \in {"mount", "page", "fetch", "toggle", "selectAll", "submit"}

\* ----------------------------------------------------------------------
\* Properties
\* ----------------------------------------------------------------------
Now == Pre

RowIds == Range(artworks)

\* the decimal numeral of a natural number, as the text a user types
DigitChar(d) ==
  CASE d = 0 -> "0" [] d = 1 -> "1" [] d = 2 -> "2" [] d = 3 -> "3" [] d = 4 -> "4"
    [] d = 5 -> "5" [] d = 6 -> "6" [] d = 7 -> "7" [] d = 8 -> "8" [] d = 9 -> "9"

RECURSIVE Numeral(_)
Numeral(n) ==
  IF n < 10 THEN <<DigitChar(n)>> ELSE Numeral(n \div 10) \o <<DigitChar(n % 10)>>

\* C1: no record id is in the Include Set and in the Exclude Set at once.
C1_IncludeExcludeDisjoint == selectedRowIds \cap deselectedRowIds = {}

\* an event has just moved an id from the Include Set to the Exclude Set
C1_Witness ==
  /\ last.op \in {"toggle", "selectAll"}
  /\ last.pre.sel \cap deselectedRowIds # {}
  /\ selectedRowIds # {}

\* C2: right after a row toggle or a select-all toggle the mode is manual and
\* the Bulk Target is 0, whatever they were, and the sets are not cleared:
\* ids off the displayed page keep their membership, and an id of the page
\* that was in one of the sets is still in one of them.
C2_ManualActionForcesManual ==
  last.op \in {"toggle", "selectAll"} =>
    /\ selectionMode = "manual"
    /\ customSelectTarget = 0
    /\ selectedRowIds \ RowIds = last.pre.sel \ RowIds
    /\ deselectedRowIds \ RowIds = last.pre.desel \ RowIds
    /\ (last.pre.sel \cup last.pre.desel) \subseteq (selectedRowIds \cup deselectedRowIds)

\* a row toggle has just acted on bulk mode and left an exclusion
C2_Witness ==
  /\ last.op = "toggle"
  /\ last.pre.mode = "custom"
  /\ last.pre.target > 0
  /\ deselectedRowIds # {}

\* C3: after submitting the numeral of N with 0 < N <= total the submission
\* is accepted, both sets are empty, the mode is bulk and the target is N.
C3_BulkSubmitResets ==
  last.op = "submit" =>
    \A n \in 1..totalRecords :
      last.input = Numeral(n) =>
        /\ last.ok
        /\ Now = [mode |-> "custom", target |-> n, sel |-> {}, desel |-> {}]

\* a submission has just been accepted on non-empty Include and Exclude sets
C3_Witness ==
  /\ last.op = "submit"
  /\ last.ok
  /\ last.pre.sel # {}
  /\ last.pre.desel # {}
  /\ customSelectTarget = 15

\* the texts the claim says are rejected: zero, a negative number, a text with
\* no digit, a number above total
MustReject(text, total) ==
  \/ text = Numeral(0)
  \/ \E n \in 1..99 : text = <<"-">> \o Numeral(n)
  \/ \A i \in DOMAIN text : \A d \in 0..9 : text[i] # DigitChar(d)
  \/ \E n \in 0..99 : text = Numeral(n) /\ n > total

DecisionOrder(id, indexOnPage) ==
  IF id \in deselectedRowIds THEN FALSE
  ELSE IF id \in selectedRowIds THEN TRUE
  ELSE IF selectionMode = "custom" /\ customSelectTarget > 0
       THEN (currentPage - 1) * ROWS_PER_PAGE + indexOnPage + 1 <= customSelectTarget
       ELSE FALSE

\* C5: the rows shown checked are those the decision order selects (Exclude,
\* then Include, then the global position against the Bulk Target, else not
\* selected), and no id of the Exclude Set is shown checked.
C5_SelectionDecisionOrder ==
  /\ getSelectedArtworks =
       {artworks[i] : i \in {j \in DOMAIN artworks : DecisionOrder(artworks[j], j - 1)}}
  /\ getSelectedArtworks \cap deselectedRowIds = {}
  /\ isAllSelected = (Len(artworks) > 0 /\ getSelectedArtworks = RowIds)

\* bulk mode on page 2 with the target inside the page: some rows checked,
\* some not
C5_Witness ==
  /\ selectionMode = "custom"
  /\ currentPage = 2
  /\ artworks = PageData(2, 50)
  /\ getSelectedArtworks # {}
  /\ getSelectedArtworks # RowIds

\* bulk target 15 on a catalog of 50, with page p displayed
ScenarioA(p) ==
  /\ selectionMode = "custom"
  /\ customSelectTarget = 15
  /\ totalRecords = 50
  /\ currentPage = p
  /\ artworks = PageData(p, 50)

\* C6 as stated: on page 1 all 12 rows are selected; on page 2 the rows at
\* index 0 and 1 are selected and the rows at index 2 to 11 are not.
C6_ScenarioA_AsStated ==
  /\ ScenarioA(1) => (Len(artworks) = 12 /\ getSelectedArtworks = RowIds)
  /\ ScenarioA(2) => getSelectedArtworks = {artworks[1], artworks[2]}

\* C6 (amended): on page 1 all 12 rows are selected; on page 2 the rows at
\* index 0, 1 and 2 (global positions 13, 14, 15) are selected and the rows at
\* index 3 to 11 are not.
C6_ScenarioA ==
  /\ ScenarioA(1) => (Len(artworks) = 12 /\ getSelectedArtworks = RowIds)
  /\ ScenarioA(2) =>
       /\ Len(artworks) = 12
       /\ getSelectedArtworks = {artworks[1], artworks[2], artworks[3]}
       /\ \A i \in 1..3 : artworks[i] = IdOf(12 + i)

\* page 2 displayed under the bulk target 15, right after the fetch of page 2
C6_Witness ==
  /\ ScenarioA(2)
  /\ last.op = "fetch"
  /\ last.ok

\* the rows that were shown checked when the last event arrived
CheckedBefore == selectedRowsIn(last.pre, currentPage, artworks)

\* the last event is a row toggle that carried the checked rows minus row r
UncheckedOnly(r) ==
  /\ last.op = "toggle"
  /\ r \in CheckedBefore
  /\ last.value = CheckedBefore \ {r}

\* the row at global position 14 has just been unchecked on page 2 of the
\* catalog of 50 under the bulk target 15
ScenarioB ==
  /\ last.pre = [mode |-> "custom", target |-> 15, sel |-> {}, desel |-> {}]
  /\ totalRecords = 50
  /\ currentPage = 2
  /\ artworks = PageData(2, 50)
  /\ UncheckedOnly(IdOf(14))

\* C7: Scenario B ends in manual mode with Bulk Target 0, Exclude Set = {id
\* at position 14} and Include Set = {}, and then no row of any page is
\* selected any more.
C7_ScenarioB ==
  ScenarioB =>
    /\ Now = [mode |-> "manual", target |-> 0, sel |-> {}, desel |-> {IdOf(14)}]
    /\ \A p \in 1..PageCount(50) : selectedRowsIn(Now, p, PageData(p, 50)) = {}

\* Scenario B has happened: three rows were checked, none is now
C7_Witness ==
  /\ ScenarioB
  /\ Cardinality(CheckedBefore) = 3
  /\ getSelectedArtworks = {}

\* C8 as stated: with total 20 the count is 20 right after the submission of
\* 20, and 19 after the user then unchecks one row.
C8_ScenarioC_AsStated ==
  /\ (last.op = "submit" /\ last.ok /\ customSelectTarget = 20 /\ totalRecords = 20)
       => getTotalSelectedCount = 20
  /\ \A r \in RowIds :
       (/\ last.pre = [mode |-> "custom", target |-> 20, sel |-> {}, desel |-> {}]
        /\ totalRecords = 20
        /\ UncheckedOnly(r))
       => getTotalSelectedCount = 19

\* C9: the count is |Include Set| in manual mode, max(0, min(target, total) -
\* |Exclude Set|) in bulk mode with a positive target, and 0 otherwise.
C9_TotalSelectedCount ==
  getTotalSelectedCount =
    IF selectionMode = "manual" THEN Cardinality(selectedRowIds)
    ELSE IF selectionMode = "custom" /\ customSelectTarget > 0
    THEN Max(0, Min(customSelectTarget, totalRecords) - Cardinality(deselectedRowIds))
    ELSE 0

\* a bulk target of 21 outlives a total that fell to 20: the count is 20
C9_Witness ==
  /\ selectionMode = "custom"
  /\ customSelectTarget = 21
  /\ totalRecords = 20
  /\ getTotalSelectedCount = 20

\* the last two events are row toggles of the same page in a manual session:
\* the first unchecked row r alone, the second checked it again
RoundTrip(r) ==
  /\ last.op = "toggle"
  /\ last.prev.op = "toggle"
  /\ last.prev.page = currentPage
  /\ last.prev.pre.mode = "manual"
  /\ r \in selectedRowsIn(last.prev.pre, currentPage, artworks)
  /\ last.prev.value = selectedRowsIn(last.prev.pre, currentPage, artworks) \ {r}
  /\ last.value = last.prev.value \cup {r}

\* C10: unchecking a row and checking it again in a manual session restores
\* both sets to what they were before the two toggles.
C10_ToggleRoundTrip ==
  \A r \in RowIds :
    RoundTrip(r) =>
      /\ selectedRowIds = last.prev.pre.sel
      /\ deselectedRowIds = last.prev.pre.desel

\* a round trip has happened while other ids were held in the sets
C10_Witness ==
  \E r \in RowIds :
    /\ RoundTrip(r)
    /\ r \in selectedRowIds
    /\ Cardinality(selectedRowIds) > 1

\* C11: after a select-all toggle, if checked every displayed record is in
\* the Include Set and not in the Exclude Set and every displayed row is
\* selected; if unchecked every displayed record is in the Exclude Set and not
\* in the Include Set and no displayed row is selected.  Ids off the
\* displayed page keep their membership in both sets.
C11_SelectAllToggle ==
  last.op = "selectAll" =>
    /\ last.checked =>
         /\ RowIds \subseteq selectedRowIds
         /\ RowIds \cap deselectedRowIds = {}
         /\ getSelectedArtworks = RowIds
    /\ ~last.checked =>
         /\ RowIds \subseteq deselectedRowIds
         /\ RowIds \cap selectedRowIds = {}
         /\ getSelectedArtworks = {}
    /\ selectedRowIds \ RowIds = last.pre.sel \ RowIds
    /\ deselectedRowIds \ RowIds = last.pre.desel \ RowIds

\* the page has just been unchecked as a whole while ids of the other page
\* are held in the Include Set
C11_Witness ==
  /\ last.op = "selectAll"
  /\ ~last.checked
  /\ RowIds # {}
  /\ last.pre.sel \cap RowIds # {}
  /\ selectedRowIds \ RowIds # {}

\* every id the event could concern: the displayed rows and the ids held in
\* a set before or after it
KnownIds ==
  RowIds \cup selectedRowIds \cup deselectedRowIds \cup last.pre.sel \cup last.pre.desel

\* C12: a row toggle changes membership only for displayed records whose
\* previous selection differs from their presence in the event's rows: a
\* newly selected one is in Include and not in Exclude, a newly deselected one
\* is in Exclude and not in Include; every other id keeps its membership.
C12_ManualToggleFrame ==
  last.op = "toggle" =>
    \A id \in KnownIds :
      IF id \in RowIds /\ id \in last.value /\ id \notin CheckedBefore
      THEN id \in selectedRowIds /\ id \notin deselectedRowIds
      ELSE IF id \in RowIds /\ id \notin last.value /\ id \in CheckedBefore
      THEN id \in deselectedRowIds /\ id \notin selectedRowIds
      ELSE /\ (id \in selectedRowIds) = (id \in last.pre.sel)
           /\ (id \in deselectedRowIds) = (id \in last.pre.desel)

\* a row has just been checked while another displayed row stayed unchecked
\* and other ids were held in both sets
C12_Witness ==
  /\ last.op = "toggle"
  /\ last.value \ CheckedBefore # {}
  /\ RowIds \ (last.value \cup CheckedBefore) # {}
  /\ last.pre.sel # {}
  /\ last.pre.desel # {}

\* C13 as stated: after a failed fetch completes the displayed record list
\* is empty, the loading flag is cleared and no fetch of that page was
\* started again.
C13_FailedFetchEmptiesPage ==
  (last.op = "fetch" /\ ~last.ok) => (artworks = << >> /\ ~loading)

\* the other page's number
OtherPage(p) == CHOOSE q \in Pages : q # p

\* C14: a stale-response race is possible.  A page change cancels no fetch
\* in flight, and a resolved fetch replaces the displayed rows with the rows
\* of its own page whatever the current page is; so (witness) a state is
\* reachable with no fetch in flight, currentPage = p2 and the rows of p1.
C14_StaleResponseRace ==
  /\ [](last.op = "fetch" /\ last.ok => artworks = PageData(last.page, totalRecords))
  /\ [][last'.op = "page" => \A p \in Pages : inFlight'[p] >= inFlight[p]]_vars

\* no fetch in flight, the current page is one page and the rows are the
\* other page's, so that a bulk target of 15 shows all of them checked
C14_Witness ==
  /\ InFlightCount = 0
  /\ ~loading
  /\ last.op = "fetch" /\ last.ok
  /\ last.page = OtherPage(currentPage)
  /\ currentPage = 1
  /\ artworks = PageData(2, totalRecords)
  /\ artworks # << >>
  /\ selectionMode = "custom"
  /\ customSelectTarget = 15
  /\ getSelectedArtworks = RowIds

\* C15: a page change (with the fetch it starts) and the completion of a
\* fetch, successful or failed, leave mode, target, Include Set and Exclude
\* Set unchanged.
C15_PagingKeepsSelection ==
  [][last'.op \in {"page", "fetch"} => UNCHANGED selVars]_vars

\* a fetch has failed while both sets were non-empty
C15_Witness ==
  /\ last.op = "fetch"
  /\ ~last.ok
  /\ selectedRowIds # {}
  /\ deselectedRowIds # {}

\* C16: in every reachable state whose mode is bulk (custom) both the
\* Include Set and the Exclude Set are empty, so the bulk count never
\* subtracts an exclusion.
C16_BulkModeSetsEmpty ==
  selectionMode = "custom" =>
    /\ selectedRowIds = {}
    /\ deselectedRowIds = {}
    /\ getTotalSelectedCount = Min(customSelectTarget, totalRecords)

\* bulk mode with target 20, entered after an earlier selection event and
\* kept across a page change
C16_Witness ==
  /\ selectionMode = "custom"
  /\ customSelectTarget = 20
  /\ currentPage = 2
  /\ nOps >= 2

\* page and index on its page of the record at global position pos
PageOf(pos) == ((pos - 1) \div ROWS_PER_PAGE) + 1
IndexOf(pos) == (pos - 1) % ROWS_PER_PAGE

\* the records for which isArtworkSelected is true when the record's own
\* page is displayed: in bulk mode the records of the dataset (positions
\* 1..totalRecords), each tested at its own page and index; in manual mode,
\* where the test reads no position, the ids held in either set.
SelectedInDataset ==
  IF selectionMode = "custom"
  THEN {IdOf(pos) : pos \in {q \in 1..totalRecords :
          isSelectedIn(deselectedRowIds, selectedRowIds, selectionMode,
                       customSelectTarget, PageOf(q), IdOf(q), IndexOf(q))}}
  ELSE {id \in selectedRowIds \cup deselectedRowIds :
          isSelectedIn(deselectedRowIds, selectedRowIds, selectionMode,
                       customSelectTarget, 1, id, 0)}

\* C17: the number reported by getTotalSelectedCount equals the number of
\* records for which isArtworkSelected is true when the record's own page is
\* displayed: in manual mode the ids in Include and not in Exclude, in bulk
\* mode the records at positions 1..min(target, total).
C17_CountMatchesSelected ==
  /\ getTotalSelectedCount = Cardinality(SelectedInDataset)
  /\ selectionMode = "manual" => SelectedInDataset = selectedRowIds \ deselectedRowIds
  /\ selectionMode = "custom" =>
       SelectedInDataset = {IdOf(pos) : pos \in 1..Min(customSelectTarget, totalRecords)}

\* a bulk selection that ends inside page 2, counted while page 2 is
\* displayed with three of its rows checked
C17_Witness ==
  /\ selectionMode = "custom"
  /\ customSelectTarget = 15
  /\ currentPage = 2
  /\ artworks = PageData(2, 50)
  /\ Cardinality(getSelectedArtworks) = 3
  /\ getTotalSelectedCount = 15

\* C18: when the mode before a row toggle was manual, the rows shown as
\* checked after it are exactly the rows the event carried.
C18_ManualToggleShowsEvent ==
  (last.op = "toggle" /\ last.pre.mode = "manual") => getSelectedArtworks = last.value

\* a row toggle of a manual session has unchecked one of several checked rows
C18_Witness ==
  /\ last.op = "toggle"
  /\ last.pre.mode = "manual"
  /\ CheckedBefore \ last.value # {}
  /\ last.value # {}
  /\ last.value \subseteq RowIds

\* C19: the mode is bulk (custom) iff the target is > 0 and manual iff the
\* target is 0; in bulk mode the target is a submitted count, and right after
\* an accepted submission it is the submitted value and is <= the total.
C19_ModeTargetAgree ==
  /\ (selectionMode = "custom") <=> (customSelectTarget > 0)
  /\ (selectionMode = "manual") <=> (customSelectTarget = 0)
  /\ selectionMode = "custom" => Numeral(customSelectTarget) \in CountInputs
  /\ (last.op = "submit" /\ last.ok) =>
       /\ selectionMode = "custom"
       /\ parseInt(last.input) = [nan |-> FALSE, val |-> customSelectTarget]
       /\ customSelectTarget <= totalRecords

\* a select-all toggle has just ended a bulk selection
C19_Witness ==
  /\ last.op = "selectAll"
  /\ last.pre.mode = "custom"
  /\ last.pre.target > 0
  /\ customSelectTarget = 0

\* from some point on no page-change event happens
PageChangesStop == <>[][last'.op # "page"]_vars

\* the fetch started by the mount or by the latest page change is the only
\* one in flight
LastFetchAlone ==
  /\ last.op \in {"mount", "page"}
  /\ last.ok
  /\ InFlightCount = 1

\* that fetch has completed and, if it succeeded, the displayed rows are the
\* rows of the current page
LastFetchShown ==
  /\ InFlightCount = 0
  /\ last.op = "fetch"
  /\ last.page = currentPage
  /\ ~loading
  /\ last.ok => artworks = PageData(currentPage, totalRecords)

\* C20: if every issued fetch eventually completes and page changes stop,
\* eventually loading is false and stays false; and when the latest page
\* change's fetch is the only one in flight, it completes and, if it
\* succeeded, the displayed rows are that page's rows, unless another page
\* change starts a second fetch first.
C20_LoadingSettles ==
  /\ PageChangesStop => <>[](~loading)
  /\ LastFetchAlone ~> (LastFetchShown \/ InFlightCount > 1)

\* the fetch of page 2 has succeeded alone and its rows are displayed
C20_Witness ==
  /\ last.op = "fetch"
  /\ last.ok
  /\ last.page = 2
  /\ currentPage = 2
  /\ InFlightCount = 0
  /\ ~loading
  /\ artworks = PageData(2, totalRecords)
  /\ artworks # << >>

====
